---- MODULE Spec2Model ----
(***************************************************************************)
(* godeogoker: the segmentation and caption synchronisation pipeline of    *)
(* internal/videos/main.go.                                                *)
(*                                                                         *)
(* Durations (time.Duration) are kept in milliseconds; the int arguments   *)
(* of the Go functions (startSeconds, endSeconds, cut.Begin, cut.End) are  *)
(* kept in seconds, as in the source.                                      *)
(***************************************************************************)
EXTENDS Integers, Sequences, FiniteSets, TLC

(***************************************************************************)
(* Go integer arithmetic: / and % truncate toward zero, and so does the    *)
(* conversion int(float64).                                                *)
(***************************************************************************)
GoDiv(a, b) == IF a >= 0 THEN a \div b ELSE -((-a) \div b)

GoMod(a, b) == a - b * GoDiv(a, b)

Min2(a, b) == IF a <= b THEN a ELSE b

Max2(a, b) == IF a >= b THEN a ELSE b

\* ceil(a / b) for a >= 0, b > 0 (math.Ceil of the float quotient)
CeilDiv(a, b) == (a + b - 1) \div b

(***************************************************************************)
(* Bounds of the model.                                                    *)
(***************************************************************************)
MaxEntries == 2

MaxCues == 2

(***************************************************************************)
(* Timed text.  A subtitle text is a sequence of tokens: letters, a        *)
(* space, and the inline tags of a YouTube caption track ("<t>" is a       *)
(* per-word timestamp tag <HH:MM:SS.mmm>, "<c>" and "</c>" the style       *)
(* tags).                                                                  *)
(***************************************************************************)
TagTokens == {"<t>", "<c>", "</c>"}

RECURSIVE StripTags(_)
StripTags(text) ==
    IF text = <<>> THEN <<>>
    ELSE IF Head(text) \in TagTokens THEN StripTags(Tail(text))
    ELSE <<Head(text)>> \o StripTags(Tail(text))

\* strings.ReplaceAll(s, "  ", " "): one left-to-right pass over
\* non-overlapping pairs of spaces
RECURSIVE CollapseSpaces(_)
CollapseSpaces(text) ==
    IF Len(text) < 2 THEN text
    ELSE IF text[1] = " " /\ text[2] = " "
         THEN <<" ">> \o CollapseSpaces(Tail(Tail(text)))
    ELSE <<Head(text)>> \o CollapseSpaces(Tail(text))

RECURSIVE TrimLeft(_)
TrimLeft(text) ==
    IF text # <<>> /\ Head(text) = " " THEN TrimLeft(Tail(text)) ELSE text

RECURSIVE TrimRight(_)
TrimRight(text) ==
    IF text # <<>> /\ text[Len(text)] = " "
    THEN TrimRight(SubSeq(text, 1, Len(text) - 1))
    ELSE text

TrimSpace(text) == TrimLeft(TrimRight(text))

cleanSubtitleText(text) == TrimSpace(CollapseSpaces(StripTags(text)))

(***************************************************************************)
(* A timestamp field of a caption file, as parseTimestamp sees it: the     *)
(* colon-separated parts (nparts of them; the first three are h, m, s),    *)
(* each a number or not (time.ParseDuration fails on it and yields 0),     *)
(* and the digits after the decimal separator ("." or ",").                *)
(***************************************************************************)
Num(v) == [ok |-> TRUE, v |-> v]

NotNum == [ok |-> FALSE, v |-> 0]

Stamp(h, m, s, frac) == [nparts |-> 3, h |-> Num(h), m |-> Num(m), s |-> Num(s), frac |-> frac]

\* "MM:SS.mmm": two colon-separated parts only
ShortStamp(m, s, frac) == [nparts |-> 2, h |-> Num(m), m |-> Num(s), s |-> NotNum, frac |-> frac]

\* no digits at all in the seconds part, e.g. "00:00:xx"
BadSecondsStamp == [nparts |-> 3, h |-> Num(0), m |-> Num(0), s |-> NotNum, frac |-> <<>>]

PartValue(p) == IF p.ok THEN p.v ELSE 0

\* ms: padded with "0" to three digits, cut to three digits
FracMillis(frac) ==
    LET d(i) == IF i <= Len(frac) THEN frac[i] ELSE 0
    IN  IF frac = <<>> THEN 0 ELSE 100 * d(1) + 10 * d(2) + d(3)

parseTimestamp(ts) ==
    IF ts.nparts < 3 THEN 0
    ELSE 3600000 * PartValue(ts.h) + 60000 * PartValue(ts.m)
         + 1000 * PartValue(ts.s) + FracMillis(ts.frac)

(***************************************************************************)
(* Lines of a caption file, after strings.TrimSpace.  kind "time" is a     *)
(* line containing "-->"; ts holds the fields strings.Split(line, "-->")   *)
(* gives (two for a time range).                                           *)
(***************************************************************************)
NoText == <<>>

BlankLine == [kind |-> "blank", ts |-> <<>>, text |-> NoText]

HeaderLine == [kind |-> "WEBVTT", ts |-> <<>>, text |-> NoText]

NoteLine == [kind |-> "NOTE", ts |-> <<>>, text |-> NoText]

TimeLine(fields) == [kind |-> "time", ts |-> fields, text |-> NoText]

TextLine(text) == [kind |-> "text", ts |-> <<>>, text |-> text]

NewEntry(index) == [Index |-> index, StartTime |-> 0, EndTime |-> 0, Text |-> NoText]

\* line 720: line == "" || line == "WEBVTT" || strings.HasPrefix(line, "NOTE");
\* a comment line begins with "NOTE", and so may a line of caption text
skipsLine(line) ==
    \/ line.kind \in {"blank", "WEBVTT", "NOTE"}
    \/ line.kind = "text" /\ line.text # NoText /\ Head(line.text) = "NOTE"

\* one iteration of the loop over the lines; st is the loop's local state
parseVTTLine(st, line) ==
    IF skipsLine(line) THEN st
    ELSE IF line.kind = "time" THEN
        LET fresh == NewEntry(st.index + 1)
            timed == IF Len(line.ts) = 2
                     THEN [fresh EXCEPT !.StartTime = parseTimestamp(line.ts[1]),
                                        !.EndTime = parseTimestamp(line.ts[2])]
                     ELSE fresh
        IN  [entries |-> IF st.inEntry THEN Append(st.entries, st.cur) ELSE st.entries,
             cur |-> timed, inEntry |-> TRUE, index |-> st.index + 1]
    ELSE IF st.inEntry THEN
        [st EXCEPT !.cur.Text = IF st.cur.Text # NoText
                                THEN st.cur.Text \o <<" ">> \o line.text
                                ELSE line.text]
    ELSE st

RECURSIVE parseVTTLoop(_, _)
parseVTTLoop(st, lines) ==
    IF lines = <<>> THEN st
    ELSE parseVTTLoop(parseVTTLine(st, Head(lines)), Tail(lines))

parseVTTFile(lines) ==
    LET st == parseVTTLoop([entries |-> <<>>, cur |-> NewEntry(0),
                            inEntry |-> FALSE, index |-> 0], lines)
    IN  IF st.inEntry THEN Append(st.entries, st.cur) ELSE st.entries

(***************************************************************************)
(* formatSRTTimestamp: the fields of "%02d:%02d:%02d,000".                 *)
(***************************************************************************)
formatSRTTimestamp(seconds) ==
    [h |-> GoDiv(seconds, 3600), m |-> GoDiv(GoMod(seconds, 3600), 60),
     s |-> GoMod(seconds, 60), ms |-> 0]

\* the time an SRT timestamp denotes, in milliseconds
SRTMillis(t) == 3600000 * t.h + 60000 * t.m + 1000 * t.s + t.ms

\* int(math.Max(0, entry.StartTime.Seconds() - float64(startSeconds)))
adjustedStart(entry, startSeconds) ==
    GoDiv(Max2(0, entry.StartTime - 1000 * startSeconds), 1000)

\* int(math.Min(float64(endSeconds-startSeconds), entry.EndTime.Seconds() - float64(startSeconds)))
adjustedEnd(entry, startSeconds, endSeconds) ==
    GoDiv(Min2(1000 * (endSeconds - startSeconds), entry.EndTime - 1000 * startSeconds), 1000)

\* the condition under which getSubtitlesForTimeRange keeps an entry
inTimeRange(entry, startSeconds, endSeconds) ==
    /\ entry.StartTime <= 1000 * endSeconds
    /\ entry.EndTime >= 1000 * startSeconds

\* the blocks of the SRT text getSubtitlesForTimeRange builds
RECURSIVE subtitleBlocks(_, _, _, _)
subtitleBlocks(subtitleEntries, startSeconds, endSeconds, index) ==
    IF subtitleEntries = <<>> THEN <<>>
    ELSE LET entry == Head(subtitleEntries)
         IN  IF inTimeRange(entry, startSeconds, endSeconds)
             THEN <<[index |-> index,
                     start |-> formatSRTTimestamp(adjustedStart(entry, startSeconds)),
                     end |-> formatSRTTimestamp(adjustedEnd(entry, startSeconds, endSeconds)),
                     text |-> cleanSubtitleText(entry.Text)]>>
                  \o subtitleBlocks(Tail(subtitleEntries), startSeconds, endSeconds, index + 1)
             ELSE subtitleBlocks(Tail(subtitleEntries), startSeconds, endSeconds, index)

getSubtitlesForTimeRange(subtitleEntries, startSeconds, endSeconds) ==
    subtitleBlocks(subtitleEntries, startSeconds, endSeconds, 1)

(***************************************************************************)
(* State.                                                                  *)
(*   doc, subtitleEntries, startSeconds, endSeconds, subtitleText, tpc:    *)
(*   a caption file, the entries parsed from it, and one call of           *)
(*   getSubtitlesForTimeRange on them.                                     *)
(***************************************************************************)
VARIABLES doc, subtitleEntries, startSeconds, endSeconds, subtitleText, tpc

textVars == <<doc, subtitleEntries, startSeconds, endSeconds, subtitleText, tpc>>

(***************************************************************************)
(*   pc: the place DownloadVideo (and the function it is in) has reached   *)
(*   for the video being processed.                                        *)
(*   channel: the config.Channel fields the pipeline reads.                *)
(*   duration: the length of the downloaded video, in ms, which ffprobe    *)
(*   reports; vttReadable: whether "<id>.srt.pt.vtt" can be read.          *)
(*   splitLongVideo: splitI (its i), videoSegments, subtitleSegments, and ffmpegCuts,   *)
(*   the -ss/-t arguments of the ffmpeg runs so far; segmentFiles, the     *)
(*   caption text written to each segment's .srt file.                     *)
(***************************************************************************)
VARIABLES pc, channel, duration, vttReadable,
          splitI, videoSegments, subtitleSegments, ffmpegCuts, segmentFiles

(***************************************************************************)
(*   DownloadVideo's loop over the segments: seg, the 1-based position in  *)
(*   videoSegments, and cuts, what GetCuts returned for it.                *)
(*   GetCuts: attempt, statusCode, apiResponse (its Choices), and the      *)
(*   record of the call: waits, the seconds slept before each attempt,     *)
(*   outcomes, how each attempt ended, lastResponse, what the service      *)
(*   answered last.                                                        *)
(***************************************************************************)
VARIABLES seg, cuts, attempt, statusCode, apiResponse, waits, outcomes, lastResponse

(***************************************************************************)
(*   GetCuts: subtleContent, the caption text it read and put in the       *)
(*   request (the lines of the file).                                      *)
(*   DownloadVideo(channel, force), for the video of the current           *)
(*   iteration of its loop over the video IDs: force; outputDir, the       *)
(*   directory channel.Folder/<id>: exists, whether it is there; old,      *)
(*   whether it holds what an earlier run left; made, whether this run     *)
(*   created anything under it; video and subtitle, whether                *)
(*   "<id>.mp4" / "<id>.srt" is missing ("none"), left by an earlier run   *)
(*   ("old") or downloaded by this run ("new").  result, how the           *)
(*   iteration ended; asked, whether a cut proposal was requested for the  *)
(*   video; finals, the paths of the final clips written for the earlier   *)
(*   cuts of the segment; visited, the positions of the cuts of the        *)
(*   segment taken by the loop over the cuts so far.                       *)
(***************************************************************************)
VARIABLES subtleContent, force, outputDir, result, asked, finals, visited

(***************************************************************************)
(*   payload and mPayload: the bytes.Buffer holding the request body in    *)
(*   GetCuts and in GenerateMetadata, as the number of bytes not read      *)
(*   from it yet.  disk: the segment files splitLongVideo created that     *)
(*   are on disk.  earlier: while the skip/force policy is applied to a    *)
(*   video that an earlier run of the program met, how that run ended for  *)
(*   it.                                                                   *)
(***************************************************************************)
VARIABLES payload, mPayload, disk, earlier

runVars == <<force, earlier, outputDir, result, asked, finals, visited>>

segVars == <<seg, cuts>>

(***************************************************************************)
(*   The loop over the cuts of a segment: videoDuration (ms), cutIndex,    *)
(*   the 1-based position in cuts, and cur, what has been done for it:     *)
(*   sliced, the SubClip calls; temp, whether temp_<title>.mp4 exists;     *)
(*   caption, the text written to temp_<title>.srt; final, what            *)
(*   horizontal/<title>.mp4 is; metadataFile, whether the .json was        *)
(*   written; attempted and rendered, the variants; uploads, the           *)
(*   UploadToYouTube calls; outcome, how the iteration ended.              *)
(*   GenerateMetadata: mAttempt, mStatusCode, metadata (its locals         *)
(*   attempt, statusCode, metadata), mOutcomes, how each attempt ended,    *)
(*   and metaResult, the pointer it returned.                              *)
(***************************************************************************)
VARIABLES videoDuration, cutIndex, cur, mAttempt, mStatusCode, metadata, mOutcomes, metaResult

cutVars == <<videoDuration, cutIndex, cur>>

metaVars == <<mAttempt, mStatusCode, metadata, mOutcomes, metaResult, mPayload>>

getCutsVars == <<attempt, statusCode, apiResponse, waits, outcomes, lastResponse, subtleContent, payload>>

envVars == <<channel, duration, vttReadable>>

splitVars == <<splitI, videoSegments, subtitleSegments, ffmpegCuts, segmentFiles, disk>>

vars == <<textVars, pc, envVars, splitVars, segVars, getCutsVars, cutVars, metaVars, runVars>>

(***************************************************************************)
(* Inputs of the timed-text functions.                                     *)
(***************************************************************************)
PlainA == <<"A">>

PlainB == <<"B">>

\* "A<00:00:01.000><c> B</c>", the shape of a YouTube automatic caption
TaggedAB == <<"A", "<t>", "<c>", " ", "B", "</c>">>

\* "NOTE B", a caption that begins with the word NOTE
NoteB == <<"NOTE", " ", "B">>

\* "A <c></c>  B": three spaces are left once the tags are gone
SpacedAB == <<"A", " ", "<c>", "</c>", " ", " ", "B">>

Seconds(n) == 1000 * n

Entry(s, e, text) == [Index |-> 1, StartTime |-> s, EndTime |-> e, Text |-> text]

EntryPool ==
    { Entry(Seconds(10), Seconds(20), PlainA),
      Entry(Seconds(25), Seconds(35), PlainB),
      Entry(10500, 19250, TaggedAB),
      Entry(15999, 16001, PlainA),
      Entry(Seconds(30), Seconds(40), PlainB),
      Entry(0, Seconds(15), SpacedAB),
      Entry(Seconds(20), Seconds(20), PlainA),
      Entry(Seconds(36), Seconds(50), PlainB) }

RECURSIVE SeqsUpTo(_, _)
SeqsUpTo(S, n) ==
    IF n = 0 THEN {<<>>}
    ELSE LET shorter == SeqsUpTo(S, n - 1)
         IN  shorter \cup {Append(q, x) : q \in {r \in shorter : Len(r) = n - 1}, x \in S}

\* a slice handed to getSubtitlesForTimeRange keeps the Index fields the parser gave
Renumber(es) == [i \in 1..Len(es) |-> [es[i] EXCEPT !.Index = i]]

EntryLists == {Renumber(es) : es \in SeqsUpTo(EntryPool, MaxEntries)}

WindowSeconds == {0, 15, 30, 40}

\* the windows tried on a parsed file: the whole file, and a part of it
FileWindows == {<<0, 40>>, <<15, 30>>}

TimeLines ==
    { TimeLine(<<Stamp(0, 0, 10, <<0, 0, 0>>), Stamp(0, 0, 20, <<0, 0, 0>>)>>),
      TimeLine(<<Stamp(0, 0, 25, <<>>), Stamp(0, 0, 35, <<>>)>>),
      TimeLine(<<Stamp(0, 0, 10, <<5>>), Stamp(0, 0, 19, <<2, 5, 0, 9>>)>>),
      TimeLine(<<Stamp(0, 0, 10, <<5, 0, 0>>), Stamp(0, 0, 19, <<2, 5, 0>>)>>),
      TimeLine(<<Stamp(0, 0, 20, <<0, 0, 0>>), BadSecondsStamp>>),
      TimeLine(<<ShortStamp(0, 10, <<0, 0, 0>>), ShortStamp(0, 20, <<0, 0, 0>>)>>),
      TimeLine(<<Stamp(0, 0, 10, <<>>), Stamp(0, 0, 20, <<>>), Stamp(0, 0, 30, <<>>)>>) }

\* what follows a cue's time line: its text lines, and the blank line ending the cue
CueBodies ==
    { <<>>,
      <<TextLine(PlainA), BlankLine>>,
      <<TextLine(PlainA), TextLine(PlainB), BlankLine>>,
      <<TextLine(TaggedAB)>>,
      <<TextLine(PlainA), TextLine(NoteB), BlankLine>> }

Cues == {<<t>> \o b : t \in TimeLines, b \in CueBodies}

Preambles == {<<>>, <<HeaderLine, BlankLine>>, <<HeaderLine, NoteLine, TextLine(PlainB)>>}

RECURSIVE Flatten(_)
Flatten(ss) == IF ss = <<>> THEN <<>> ELSE Head(ss) \o Flatten(Tail(ss))

Docs == {p \o Flatten(cs) : p \in Preambles, cs \in SeqsUpTo(Cues, MaxCues)}

(***************************************************************************)
(* The timed-text functions on their own: a caption file is parsed         *)
(* (parseVTTFile), or a list of entries is given, and a window of it is    *)
(* formatted (getSubtitlesForTimeRange).                                   *)
(***************************************************************************)
TextIdle ==
    /\ doc = <<>>
    /\ subtitleEntries = <<>>
    /\ startSeconds = 0
    /\ endSeconds = 0
    /\ subtitleText = <<>>
    /\ tpc = "idle"

InitEntries ==
    /\ startSeconds \in WindowSeconds
    /\ endSeconds \in WindowSeconds
    /\ subtitleText = <<>>
    /\ \/ /\ doc \in Docs
          /\ <<startSeconds, endSeconds>> \in FileWindows
          /\ subtitleEntries = <<>>
          /\ tpc = "file"
       \/ /\ doc = <<>>
          /\ subtitleEntries \in EntryLists
          /\ tpc = "entries"

ParseFile ==
    /\ tpc = "file"
    /\ subtitleEntries' = parseVTTFile(doc)
    /\ tpc' = "entries"
    /\ UNCHANGED <<doc, startSeconds, endSeconds, subtitleText>>

FormatRange ==
    /\ tpc = "entries"
    /\ subtitleText' = getSubtitlesForTimeRange(subtitleEntries, startSeconds, endSeconds)
    /\ tpc' = "text"
    /\ UNCHANGED <<doc, subtitleEntries, startSeconds, endSeconds>>

NextText == ParseFile \/ FormatRange

(***************************************************************************)
(* What the chat-completions service answers to one request.               *)
(*   kind "transport": client.Do fails; "read": the status line arrives    *)
(*   and reading the body fails; "http": status and body arrive.           *)
(*   A body is what json.Unmarshal makes of it: parse "syntax" (invalid    *)
(*   JSON: an error, nothing is stored), "type" (valid JSON with a value   *)
(*   of the wrong type somewhere: an UnmarshalTypeError, and the rest is   *)
(*   stored all the same) or "ok"; hasChoices says whether the "choices"   *)
(*   key is there, choices holds the message contents.  A content is what  *)
(*   the second json.Unmarshal makes of it.                                *)
(***************************************************************************)
StatusOK == 200

StatusError == 500

NoBody == [parse |-> "syntax", hasChoices |-> FALSE, choices |-> <<>>]

NoResponse == [kind |-> "none", status |-> 0, body |-> NoBody]

TransportError == [kind |-> "transport", status |-> 0, body |-> NoBody]

ReadError(status) == [kind |-> "read", status |-> status, body |-> NoBody]

Http(status, body) == [kind |-> "http", status |-> status, body |-> body]

Body(parse, hasChoices, choices) == [parse |-> parse, hasChoices |-> hasChoices, choices |-> choices]

ResponsesWith(contents) ==
    {TransportError, ReadError(StatusOK), ReadError(StatusError), Http(StatusError, NoBody),
     Http(StatusOK, NoBody)}
    \cup {Http(StatusOK, Body(p, FALSE, <<>>)) : p \in {"type", "ok"}}
    \cup {Http(StatusOK, Body(p, TRUE, <<>>)) : p \in {"type", "ok"}}
    \cup {Http(StatusOK, Body(p, TRUE, <<c>>)) : p \in {"type", "ok"}, c \in contents}

\* the cuts the service proposes
Cut(title, begin, end) == [Title |-> title, Begin |-> begin, End |-> end]

CutLists ==
    { <<Cut("A", 10, 20)>>,
      <<Cut("X", 0, 9999), Cut("A", 10, 20)>>,
      <<Cut("R", 50, 10)>>,
      <<Cut("N", -5, 10), Cut("L", 610, 700)>>,
      <<Cut("A", 10, 20), Cut("A", 30, 40)>> }

\* a message content: {"cuts": [...]}, or text that is not such an object
CutsContent(list) == [ok |-> TRUE, cuts |-> list]

BadContent == [ok |-> FALSE, cuts |-> <<>>]

CutsContents == {BadContent, CutsContent(<<>>)} \cup {CutsContent(l) : l \in CutLists}

CutsResponses == ResponsesWith(CutsContents)

\* a message content of the metadata request, as the second json.Unmarshal
\* takes it: no JSON ("syntax"), JSON with a field of the wrong type
\* ("type"), or the metadata object ("ok")
MetadataContents == {[parse |-> "syntax"], [parse |-> "type"], [parse |-> "ok"]}

MetadataResponses == ResponsesWith(MetadataContents)

\* len(jsonData), the bytes of a request body (a count that allows for a
\* body read in part)
RequestBytes == 2

\* the output directory of a video that no run has processed
NoDirectory == [exists |-> FALSE, old |-> FALSE, made |-> FALSE, video |-> "none", srt |-> "none"]

\* nothing done yet for a cut
NoProducts ==
    [sliced |-> <<>>, temp |-> FALSE, caption |-> <<>>, final |-> "none",
     metadataFile |-> FALSE, attempted |-> {}, rendered |-> {}, uploads |-> <<>>,
     outcome |-> "none"]

PipelineIdle ==
    /\ pc = "idle"
    /\ channel = [cover |-> FALSE, vertical |-> FALSE, horizontal |-> FALSE, upload |-> FALSE]
    /\ duration = 0
    /\ vttReadable = FALSE
    /\ splitI = 0
    /\ videoSegments = <<>>
    /\ subtitleSegments = <<>>
    /\ ffmpegCuts = <<>>
    /\ segmentFiles = <<>>
    /\ seg = 0
    /\ cuts = <<>>
    /\ attempt = 0
    /\ statusCode = 0
    /\ apiResponse = <<>>
    /\ waits = <<>>
    /\ outcomes = <<>>
    /\ lastResponse = NoResponse
    /\ videoDuration = 0
    /\ cutIndex = 0
    /\ cur = NoProducts
    /\ mAttempt = 0
    /\ mStatusCode = 0
    /\ metadata = "zero"
    /\ mOutcomes = <<>>
    /\ metaResult = "nil"
    /\ subtleContent = <<>>
    /\ force = FALSE
    /\ outputDir = NoDirectory
    /\ result = "none"
    /\ asked = FALSE
    /\ finals = {}
    /\ visited = <<>>
    /\ payload = RequestBytes
    /\ mPayload = RequestBytes
    /\ disk = {}
    /\ earlier = "none"

InitText ==
    /\ InitEntries
    /\ PipelineIdle

SpecText == InitText /\ [][NextText /\ UNCHANGED <<pc, envVars, splitVars, segVars, getCutsVars, cutVars, metaVars, runVars>>]_vars

(***************************************************************************)
(* Timed text: what the claims compare the output with.                    *)
(***************************************************************************)
\* the entries of a list that intersect [a, b] (seconds), in input order
Intersecting(es, a, b) ==
    LET Hit(e) == e.StartTime <= 1000 * b /\ e.EndTime >= 1000 * a
    IN  SelectSeq(es, Hit)

\* a timestamp written HH:MM:SS or HH:MM:SS.mmm
WellFormedStamp(ts) ==
    /\ ts.nparts = 3
    /\ ts.h.ok /\ ts.m.ok /\ ts.s.ok
    /\ ts.m.v < 60 /\ ts.s.v < 60
    /\ Len(ts.frac) \in {0, 3}

\* the time a well-formed timestamp denotes, in milliseconds
WrittenMillis(ts) ==
    3600000 * ts.h.v + 60000 * ts.m.v + 1000 * ts.s.v
    + (IF ts.frac = <<>> THEN 0 ELSE 100 * ts.frac[1] + 10 * ts.frac[2] + ts.frac[3])

TimeLineIndexes(lines) == {i \in DOMAIN lines : lines[i].kind = "time"}

\* a file of cues "time range, text lines, blank line" under a WEBVTT header
WellFormedDoc(lines) ==
    /\ Len(lines) >= 3
    /\ lines[1] = HeaderLine
    /\ lines[2] = BlankLine
    /\ \A i \in 3..Len(lines) : lines[i].kind \in {"time", "text", "blank"}
    /\ \A i \in TimeLineIndexes(lines) :
        /\ Len(lines[i].ts) = 2
        /\ WellFormedStamp(lines[i].ts[1])
        /\ WellFormedStamp(lines[i].ts[2])
        /\ WrittenMillis(lines[i].ts[1]) <= WrittenMillis(lines[i].ts[2])
        /\ lines[i - 1].kind = "blank"
        /\ i < Len(lines)
        /\ lines[i + 1].kind = "text"
    /\ \A i, j \in TimeLineIndexes(lines) :
        i < j => WrittenMillis(lines[i].ts[1]) <= WrittenMillis(lines[j].ts[1])

\* the text lines of the cue whose time line is lines[i], joined by spaces
RECURSIVE CueText(_, _)
CueText(lines, i) ==
    IF i >= Len(lines) \/ lines[i + 1].kind # "text" THEN NoText
    ELSE LET rest == CueText(lines, i + 1)
         IN  IF rest = NoText THEN lines[i + 1].text
             ELSE lines[i + 1].text \o <<" ">> \o rest

\* the k-th smallest element of a set of numbers
RECURSIVE Kth(_, _)
Kth(S, k) ==
    LET least == CHOOSE x \in S : \A y \in S : x <= y
    IN  IF k = 1 THEN least ELSE Kth(S \ {least}, k - 1)

\* the cues written in a well-formed file: start, end (ms) and text
WrittenCues(lines) ==
    LET idx == TimeLineIndexes(lines)
    IN  [k \in 1..Cardinality(idx) |->
            LET i == Kth(idx, k)
            IN  [start |-> WrittenMillis(lines[i].ts[1]),
                 end |-> WrittenMillis(lines[i].ts[2]),
                 text |-> CueText(lines, i)]]

\* a text without inline tags and without doubled spaces
PlainText(text) ==
    /\ \A i \in DOMAIN text : text[i] \notin TagTokens
    /\ \A i \in 1..(Len(text) - 1) : ~(text[i] = " " /\ text[i + 1] = " ")

\* the caption text lines between the time line lines[i] and the next time
\* line, joined by spaces
RECURSIVE FollowingText(_, _)
FollowingText(lines, i) ==
    IF i >= Len(lines) \/ lines[i + 1].kind = "time" THEN NoText
    ELSE LET rest == FollowingText(lines, i + 1)
         IN  IF lines[i + 1].kind # "text" THEN rest
             ELSE IF rest = NoText THEN lines[i + 1].text
             ELSE lines[i + 1].text \o <<" ">> \o rest

\* the entries of a file: one per time line, in the order of the file, each
\* with the text that follows its time line
EntriesFollowFile(lines, entries) ==
    LET idx == TimeLineIndexes(lines)
    IN  /\ Len(entries) = Cardinality(idx)
        /\ \A k \in DOMAIN entries : entries[k].Text = FollowingText(lines, Kth(idx, k))

\* a file has been parsed
Parsed == tpc \in {"entries", "text"} /\ doc # <<>>

(***************************************************************************)
(* C3.  For every window [a, b] with a <= b and every list of entries,     *)
(* every block written by getSubtitlesForTimeRange has re-timed offsets    *)
(* 0 <= start <= end <= b - a.                                             *)
(***************************************************************************)
C3_BlocksWithinWindow ==
    (tpc = "text" /\ startSeconds <= endSeconds) =>
        \A i \in DOMAIN subtitleText :
            /\ 0 <= SRTMillis(subtitleText[i].start)
            /\ SRTMillis(subtitleText[i].start) <= SRTMillis(subtitleText[i].end)
            /\ SRTMillis(subtitleText[i].end) <= 1000 * (endSeconds - startSeconds)

(***************************************************************************)
(* C4.  getSubtitlesForTimeRange(E, a, b) writes exactly the entries of E  *)
(* that intersect [a, b], in input order, numbered 1..k, each with         *)
(* start = max(entry.start, a) - a and end = min(entry.end, b) - a, for    *)
(* entry times of any resolution.                                          *)
(***************************************************************************)
C4_ClampedAndShifted ==
    tpc = "text" =>
        LET sel == Intersecting(subtitleEntries, startSeconds, endSeconds)
        IN  /\ Len(subtitleText) = Len(sel)
            /\ \A i \in DOMAIN subtitleText :
                /\ subtitleText[i].index = i
                /\ SRTMillis(subtitleText[i].start)
                     = Max2(sel[i].StartTime, 1000 * startSeconds) - 1000 * startSeconds
                /\ SRTMillis(subtitleText[i].end)
                     = Min2(sel[i].EndTime, 1000 * endSeconds) - 1000 * startSeconds

(***************************************************************************)
(* C5.  Round trip under the identity window: for a well-formed file of    *)
(* plain text whose cues all end by T, getSubtitlesForTimeRange(           *)
(* parseVTTFile(doc), 0, T) holds the cues of the file, in order, numbered *)
(* from 1, each with the same start, end and text.                         *)
(***************************************************************************)
C5_RoundTripIdentity ==
    (/\ tpc = "text"
     /\ doc # <<>>
     /\ WellFormedDoc(doc)
     /\ \A i \in DOMAIN doc : PlainText(doc[i].text)
     /\ startSeconds = 0
     /\ \A k \in DOMAIN WrittenCues(doc) : WrittenCues(doc)[k].end <= 1000 * endSeconds) =>
        LET cues == WrittenCues(doc)
        IN  /\ Len(subtitleText) = Len(cues)
            /\ \A k \in DOMAIN cues :
                /\ subtitleText[k].index = k
                /\ SRTMillis(subtitleText[k].start) = cues[k].start
                /\ SRTMillis(subtitleText[k].end) = cues[k].end
                /\ subtitleText[k].text = cues[k].text

(***************************************************************************)
(* The video being processed.                                              *)
(***************************************************************************)
segmentDuration == 1200

\* lengths of the downloaded video, in ms
Durations == {600000, 1200000, 1200500, 2400000, 2500000}

Channels ==
    { [cover |-> FALSE, vertical |-> FALSE, horizontal |-> FALSE, upload |-> FALSE],
      [cover |-> TRUE, vertical |-> TRUE, horizontal |-> TRUE, upload |-> TRUE],
      [cover |-> TRUE, vertical |-> FALSE, horizontal |-> TRUE, upload |-> FALSE],
      [cover |-> FALSE, vertical |-> TRUE, horizontal |-> FALSE, upload |-> TRUE] }

\* the caption track of the video, "<id>.srt.pt.vtt": cues in the first
\* twenty minutes and cues at the same local offsets of the next ones
VideoDoc ==
    << HeaderLine, BlankLine,
       TimeLine(<<Stamp(0, 0, 10, <<0, 0, 0>>), Stamp(0, 0, 20, <<0, 0, 0>>)>>),
       TextLine(PlainA), BlankLine,
       TimeLine(<<Stamp(0, 19, 55, <<0, 0, 0>>), Stamp(0, 20, 5, <<0, 0, 0>>)>>),
       TextLine(TaggedAB), BlankLine,
       TimeLine(<<Stamp(0, 20, 10, <<0, 0, 0>>), Stamp(0, 20, 20, <<0, 0, 0>>)>>),
       TextLine(PlainB), BlankLine >>

\* file names: the downloaded video and the subtitle name (part 0), and the
\* ".partN.mp4" / ".partN.srt" files of the segments
VideoFile(part) == [ext |-> "mp4", part |-> part]

SubtitleFile(part) == [ext |-> "srt", part |-> part]

videoFileName == VideoFile(0)

subtitleFileName == SubtitleFile(0)

(***************************************************************************)
(* splitLongVideo                                                          *)
(***************************************************************************)
\* a slip: the quotient rounded down, as integer division would give it
numSegmentsRoundedDown(d) == d \div (1000 * segmentDuration)

\* int(math.Ceil(duration / float64(segmentDuration)))
numSegments(d) == CeilDiv(d, 1000 * segmentDuration)

\* lines 140-157: the probe, and the return of a video that is short enough
ProbeDuration ==
    /\ pc = "split"
    /\ \/ /\ pc' = "failed"
          /\ UNCHANGED splitVars
       \/ /\ duration <= 1000 * segmentDuration
          /\ videoSegments' = <<videoFileName>>
          /\ subtitleSegments' = <<subtitleFileName>>
          /\ pc' = "segments"
          /\ UNCHANGED <<splitI, ffmpegCuts, segmentFiles, disk>>
       \/ /\ duration > 1000 * segmentDuration
          /\ splitI' = 0
          /\ pc' = "split.loop"
          /\ UNCHANGED <<videoSegments, subtitleSegments, ffmpegCuts, segmentFiles, disk>>
    /\ UNCHANGED <<textVars, runVars, envVars, segVars, getCutsVars, cutVars, metaVars>>

\* lines 159-186: one iteration of the loop over the segments
SplitSegment ==
    /\ pc = "split.loop"
    /\ splitI < numSegments(duration)
    /\ LET startTime == splitI * segmentDuration
           segmentVideoFile == VideoFile(splitI + 1)
           segmentSubtitleFile == SubtitleFile(splitI + 1)
       IN  /\ ffmpegCuts' = Append(ffmpegCuts, [start |-> startTime, length |-> segmentDuration])
           /\ \/ \* ffmpeg fails: return nil, nil, err; what it wrote of the
                 \* segment's file may be left
                 /\ pc' = "failed"
                 /\ videoSegments' = <<>>
                 /\ subtitleSegments' = <<>>
                 /\ disk' \in {disk, disk \cup {segmentVideoFile}}
                 /\ UNCHANGED <<splitI, segmentFiles>>
              \/ \* the caption track cannot be read: no caption file for the segment
                 /\ ~vttReadable
                 /\ videoSegments' = Append(videoSegments, segmentVideoFile)
                 /\ disk' = disk \cup {segmentVideoFile}
                 /\ splitI' = splitI + 1
                 /\ UNCHANGED <<pc, subtitleSegments, segmentFiles>>
              \/ \* the segment's caption file cannot be written
                 /\ vttReadable
                 /\ videoSegments' = Append(videoSegments, segmentVideoFile)
                 /\ disk' = disk \cup {segmentVideoFile}
                 /\ splitI' = splitI + 1
                 /\ UNCHANGED <<pc, subtitleSegments, segmentFiles>>
              \/ /\ vttReadable
                 /\ segmentFiles' = Append(segmentFiles,
                        [file |-> segmentSubtitleFile,
                         text |-> getSubtitlesForTimeRange(parseVTTFile(VideoDoc),
                                      startTime, startTime + segmentDuration)])
                 /\ subtitleSegments' = Append(subtitleSegments, segmentSubtitleFile)
                 /\ videoSegments' = Append(videoSegments, segmentVideoFile)
                 /\ disk' = disk \cup {segmentVideoFile, segmentSubtitleFile}
                 /\ splitI' = splitI + 1
                 /\ UNCHANGED pc
    /\ UNCHANGED <<textVars, runVars, envVars, segVars, getCutsVars, cutVars, metaVars>>

\* line 188
SplitReturn ==
    /\ pc = "split.loop"
    /\ splitI >= numSegments(duration)
    /\ pc' = "segments"
    /\ UNCHANGED <<textVars, runVars, envVars, splitVars, segVars, getCutsVars, cutVars, metaVars>>

(***************************************************************************)
(* GetCuts                                                                 *)
(***************************************************************************)
maxRetries == 3

RECURSIVE ShiftLeft(_, _)
ShiftLeft(x, n) == IF n = 0 THEN x ELSE ShiftLeft(2 * x, n - 1)

\* a slip: 2<<uint(attempt), twice the wait
backoffDurationShiftedOnce(n) == ShiftLeft(2, n)

\* time.Duration(2<<uint(attempt-1)) * time.Second, in seconds
backoffDuration(n) == ShiftLeft(2, n - 1)

\* json.Unmarshal(respBody, &apiResponse): the Choices stored, and whether it fails
unmarshalChoices(old, body) ==
    IF body.parse = "syntax" \/ ~body.hasChoices THEN old ELSE body.choices

unmarshalFails(body) == body.parse # "ok"

\* how an attempt ends: does the loop go on (continue) or stop (break)
attemptBreaks(resp) ==
    /\ resp.kind = "http"
    /\ resp.status = StatusOK
    /\ ~unmarshalFails(resp.body)

\* how the claims sort the answers: an answer with the cuts of a segment
\* ("cuts"), a failed attempt ("failed": transport error, status other
\* than 200, a body that cannot be read or parsed), or an answer that
\* parses and holds no proposal ("empty")
Outcome(resp) ==
    IF resp.kind # "http" \/ resp.status # StatusOK \/ resp.body.parse # "ok" THEN "failed"
    ELSE IF resp.body.choices # <<>> /\ resp.body.choices[1].ok THEN "cuts"
    ELSE "empty"

\* "<id>.srt.pt.vtt", the caption track yt-dlp writes
TrackFile == [ext |-> "srt.pt.vtt", part |-> 0]

\* lines 571-579: the file GetCuts reads for the name it is given: for
\* "<id>.partN.srt" the text before ".part" and ".srt.pt.vtt", for
\* "<id>.srt" the name and ".pt.vtt"
vttPath(subtleFileName) ==
    IF subtleFileName.part # 0
    THEN [ext |-> "srt.pt.vtt", part |-> 0]
    ELSE [ext |-> "srt.pt.vtt", part |-> subtleFileName.part]

\* lines 581-587: the content of the file read
readCaptions(subtleFileName) ==
    IF vttPath(subtleFileName) = TrackFile THEN VideoDoc ELSE <<>>

\* lines 570-633: the caption track is read and the request is built
GetCutsStart ==
    /\ pc = "getcuts"
    /\ \/ /\ ~vttReadable
          /\ cuts' = <<>>
          /\ pc' = "gotcuts"
          /\ UNCHANGED getCutsVars
       \/ /\ vttReadable
          /\ attempt' = 0
          /\ statusCode' = 0
          /\ apiResponse' = <<>>
          /\ waits' = <<>>
          /\ outcomes' = <<>>
          /\ lastResponse' = NoResponse
          /\ subtleContent' = readCaptions(subtitleSegments[seg])
          /\ payload' = RequestBytes
          /\ pc' = "getcuts.loop"
          /\ UNCHANGED cuts
    /\ UNCHANGED <<textVars, runVars, envVars, splitVars, seg, cutVars, metaVars>>

\* http.NewRequest(method, url, payload) and client.Do, lines 644-654 and
\* 909-919: the request's body is the buffer itself, its length the bytes
\* not read yet.  What client.Do leaves in the buffer: when an answer arrives the body
\* was written to the connection, so all of it was read; when client.Do
\* fails, none, part or all of it was
unreadAfter(unread, resp) ==
    IF resp.kind = "transport" THEN 0..unread ELSE {0}

\* lines 635-673: one attempt
GetCutsAttempt ==
    /\ pc = "getcuts.loop"
    /\ attempt < maxRetries
    /\ waits' = Append(waits, IF attempt > 0 THEN backoffDuration(attempt) ELSE 0)
    /\ \E resp \in CutsResponses :
        /\ lastResponse' = resp
        /\ payload' \in unreadAfter(payload, resp)
        /\ outcomes' = Append(outcomes, Outcome(resp))
        /\ statusCode' = IF resp.kind = "transport" THEN statusCode ELSE resp.status
        /\ apiResponse' = IF resp.kind = "http" /\ resp.status = StatusOK
                          THEN unmarshalChoices(apiResponse, resp.body)
                          ELSE apiResponse
        /\ IF attemptBreaks(resp)
           THEN pc' = "getcuts.after" /\ UNCHANGED attempt
           ELSE attempt' = attempt + 1 /\ UNCHANGED pc
    /\ asked' = TRUE
    /\ UNCHANGED <<textVars, envVars, splitVars, segVars, cutVars, metaVars, subtleContent,
                   force, earlier, outputDir, result, finals, visited>>

\* what lines 675-688 return
getCutsResult(status, choices) ==
    IF status # StatusOK THEN <<>>
    ELSE IF Len(choices) = 0 THEN <<>>
    ELSE IF ~choices[1].ok THEN <<>>
    ELSE choices[1].cuts

\* lines 675-688, after the loop has ended
GetCutsReturn ==
    /\ \/ pc = "getcuts.after"
       \/ pc = "getcuts.loop" /\ attempt >= maxRetries
    /\ cuts' = getCutsResult(statusCode, apiResponse)
    /\ pc' = "gotcuts"
    /\ UNCHANGED <<textVars, runVars, envVars, splitVars, seg, getCutsVars, cutVars, metaVars>>

(***************************************************************************)
(* DownloadVideo: the loop over the segments (lines 277-293, 541-554)      *)
(***************************************************************************)
\* where a segment file starts in the downloaded video, in seconds
SegmentStart(file) == IF file.part = 0 THEN 0 ELSE (file.part - 1) * segmentDuration

\* video.Duration() of a segment file, in ms: ffmpeg -ss start -t 1200
\* stops at the end of the stream
SegmentLength(file) ==
    IF file.part = 0 THEN duration
    ELSE Min2(1000 * segmentDuration, duration - 1000 * SegmentStart(file))

GetCutsIdle ==
    /\ attempt' = 0
    /\ statusCode' = 0
    /\ apiResponse' = <<>>
    /\ waits' = <<>>
    /\ outcomes' = <<>>
    /\ lastResponse' = NoResponse
    /\ subtleContent' = <<>>
    /\ payload' = RequestBytes

\* lines 277-282: the next segment, and its caption file name
NextSegment ==
    /\ pc = "segments"
    /\ \/ /\ seg > Len(videoSegments)
          /\ pc' = "cleanup"
       \/ /\ seg <= Len(videoSegments)
          /\ seg > Len(subtitleSegments)
          \* subtitleSegments[i]: index out of range
          /\ pc' = "panic"
       \/ /\ seg <= Len(videoSegments)
          /\ seg <= Len(subtitleSegments)
          /\ pc' = "getcuts"
    /\ UNCHANGED <<textVars, runVars, envVars, splitVars, segVars, getCutsVars, cutVars, metaVars>>

\* lines 284-293 and 541-543: what DownloadVideo does with the cuts
AfterGetCuts ==
    /\ pc = "gotcuts"
    /\ \/ \* no cuts: "No interesting cuts found in this segment"
          /\ Len(cuts) = 0
          /\ seg' = seg + 1
          /\ pc' = "segments"
          /\ UNCHANGED <<cuts, cutVars>>
       \/ \* moviego.Load fails: continue
          /\ Len(cuts) > 0
          /\ seg' = seg + 1
          /\ pc' = "segments"
          /\ UNCHANGED <<cuts, cutVars>>
       \/ /\ Len(cuts) > 0
          /\ videoDuration' = SegmentLength(videoSegments[seg])
          /\ cutIndex' = 1
          /\ cur' = NoProducts
          /\ pc' = "cut"
          /\ UNCHANGED <<seg, cuts>>
    /\ GetCutsIdle
    /\ visited' = <<>>
    /\ finals' = {}
    /\ UNCHANGED <<textVars, envVars, splitVars, metaVars, force, earlier, outputDir, result, asked>>

\* the files of a sequence of names
FilesOf(names) == {names[n] : n \in DOMAIN names}

\* a slip: only the media files of the segments are removed
removedAtCleanupMediaOnly(videos, subtitles) ==
    IF Len(videos) > 1
    THEN {file \in FilesOf(videos) : file # videoFileName /\ file # subtitleFileName}
    ELSE {}

\* lines 546-552: the files os.Remove is called for
removedAtCleanup(videos, subtitles) ==
    IF Len(videos) > 1
    THEN {file \in FilesOf(videos \o subtitles) :
            file # videoFileName /\ file # subtitleFileName}
    ELSE {}

\* lines 546-554
Cleanup ==
    /\ pc = "cleanup"
    /\ LET removed == removedAtCleanup(videoSegments, subtitleSegments)
       IN  /\ disk' = disk \ removed
           /\ outputDir' = IF videoFileName \in removed
                           THEN [outputDir EXCEPT !.video = "none"]
                           ELSE outputDir
    /\ result' = "completed"
    /\ pc' = "video.end"
    /\ UNCHANGED <<textVars, envVars, splitI, videoSegments, subtitleSegments, ffmpegCuts,
                   segmentFiles, segVars, getCutsVars, cutVars, metaVars,
                   force, earlier, asked, finals, visited>>

(***************************************************************************)
(* DownloadVideo: the loop over the cuts of a segment (lines 295-540)      *)
(***************************************************************************)
\* lines 298, 299 and 319: the paths of a cut's files under the output
\* directory, made of the cut's title
tempOutputFileName(cut) == [dir |-> "", name |-> <<"temp_", cut.Title>>, ext |-> "mp4"]

outputFileName(cut) == [dir |-> "horizontal", name |-> <<cut.Title>>, ext |-> "mp4"]

cutSubtitleFileName(cut) == [dir |-> "", name |-> <<"temp_", cut.Title>>, ext |-> "srt"]

\* a slip: only the begin of the cut is compared with the length
exceedsDurationBeginOnly(cut, length) == length < 1000 * cut.Begin

\* line 301
exceedsDuration(cut, length) == length < 1000 * cut.Begin \/ length < 1000 * cut.End

\* lines 295-304: the next cut and its check against the segment's length
CutCheck ==
    /\ pc = "cut"
    /\ \/ /\ cutIndex > Len(cuts)
          /\ seg' = seg + 1
          /\ pc' = "segments"
          /\ UNCHANGED <<cuts, cutVars, visited>>
       \/ /\ cutIndex <= Len(cuts)
          /\ exceedsDuration(cuts[cutIndex], videoDuration)
          /\ cur' = [cur EXCEPT !.outcome = "rejected"]
          /\ visited' = Append(visited, cutIndex)
          /\ pc' = "cut.end"
          /\ UNCHANGED <<segVars, videoDuration, cutIndex>>
       \/ /\ cutIndex <= Len(cuts)
          /\ ~exceedsDuration(cuts[cutIndex], videoDuration)
          /\ visited' = Append(visited, cutIndex)
          /\ pc' = "cut.clip"
          /\ UNCHANGED <<segVars, cutVars>>
    /\ UNCHANGED <<textVars, envVars, splitVars, getCutsVars, metaVars,
                   force, earlier, outputDir, result, asked, finals>>

\* lines 306-310: video.SubClip(begin, end).Output(temp).Run()
CutClip ==
    /\ pc = "cut.clip"
    /\ LET cut == cuts[cutIndex]
           call == [file |-> videoSegments[seg], begin |-> cut.Begin, end |-> cut.End]
       IN  \/ /\ cur' = [cur EXCEPT !.sliced = Append(@, call), !.outcome = "clip failed"]
              /\ pc' = "cut.end"
           \/ /\ cur' = [cur EXCEPT !.sliced = Append(@, call), !.temp = TRUE]
              /\ pc' = "cut.captions"
    /\ UNCHANGED <<textVars, runVars, envVars, splitVars, segVars, getCutsVars, videoDuration, cutIndex, metaVars>>

MetadataStart ==
    /\ mAttempt' = 0
    /\ mStatusCode' = 0
    /\ metadata' = "zero"
    /\ mOutcomes' = <<>>
    /\ metaResult' = "nil"
    /\ mPayload' = RequestBytes

\* a slip: the slice is left under its temporary name
renameTempNot(products) == products

\* os.Rename(tempOutputFileName, outputFileName), lines 315, 324 and 368:
\* the un-captioned slice becomes the final clip
renameTemp(products) ==
    IF products.temp THEN [products EXCEPT !.temp = FALSE, !.final = "plain"] ELSE products

\* lines 312-336: the cut's caption file
CutCaptions ==
    /\ pc = "cut.captions"
    /\ LET cut == cuts[cutIndex]
           subtitleText0 == getSubtitlesForTimeRange(parseVTTFile(VideoDoc), cut.Begin, cut.End)
       IN  \/ \* the caption track cannot be read: "Creating clip without subtitles"
              /\ ~vttReadable
              /\ cur' = [renameTemp(cur) EXCEPT !.outcome = "no captions"]
              /\ pc' = "cut.end"
              /\ UNCHANGED metaVars
           \/ \* the caption file cannot be written
              /\ vttReadable
              /\ cur' = [renameTemp(cur) EXCEPT !.outcome = "no captions"]
              /\ pc' = "cut.end"
              /\ UNCHANGED metaVars
           \/ /\ vttReadable
              /\ cur' = [cur EXCEPT !.caption = <<subtitleText0>>]
              /\ MetadataStart
              /\ pc' = "metadata.loop"
    /\ UNCHANGED <<textVars, runVars, envVars, splitVars, segVars, getCutsVars, videoDuration, cutIndex>>

(***************************************************************************)
(* GenerateMetadata                                                        *)
(***************************************************************************)
\* json.Unmarshal([]byte(content), &metadata): what metadata holds afterwards
unmarshalMetadata(old, content) ==
    IF content.parse = "syntax" THEN old
    ELSE IF content.parse = "type" THEN "partial"
    ELSE "full"

\* lines 933-953: does the attempt end the loop (break)
metadataBreaks(resp) ==
    /\ resp.kind = "http"
    /\ resp.status = StatusOK
    /\ resp.body.parse = "ok"
    /\ Len(resp.body.choices) > 0
    /\ resp.body.choices[1].parse = "ok"

\* lines 900-954: one attempt
MetadataAttempt ==
    /\ pc = "metadata.loop"
    /\ mAttempt < maxRetries
    /\ \E resp \in MetadataResponses :
        /\ mOutcomes' = Append(mOutcomes, IF metadataBreaks(resp) THEN "metadata" ELSE "failed")
        /\ mPayload' \in unreadAfter(mPayload, resp)
        /\ mStatusCode' = IF resp.kind = "transport" THEN mStatusCode ELSE resp.status
        /\ metadata' = IF /\ resp.kind = "http"
                          /\ resp.status = StatusOK
                          /\ resp.body.parse = "ok"
                          /\ Len(resp.body.choices) > 0
                       THEN unmarshalMetadata(metadata, resp.body.choices[1])
                       ELSE metadata
        /\ IF metadataBreaks(resp)
           THEN pc' = "metadata.after" /\ UNCHANGED mAttempt
           ELSE mAttempt' = mAttempt + 1 /\ UNCHANGED pc
    /\ UNCHANGED <<textVars, runVars, envVars, splitVars, segVars, getCutsVars, cutVars, metaResult>>

\* what lines 956-960 return: nil (with an error), or &metadata
generateMetadataResult(status, value) == IF status # StatusOK THEN "nil" ELSE value

\* lines 956-960, after the loop has ended
MetadataReturn ==
    /\ \/ pc = "metadata.after"
       \/ pc = "metadata.loop" /\ mAttempt >= maxRetries
    /\ metaResult' = generateMetadataResult(mStatusCode, metadata)
    /\ pc' = "cut.burn"
    /\ UNCHANGED <<textVars, runVars, envVars, splitVars, segVars, getCutsVars, cutVars,
                   mAttempt, mStatusCode, metadata, mOutcomes, mPayload>>

(***************************************************************************)
(* DownloadVideo: burn-in, variants and upload of a cut (lines 338-539)    *)
(***************************************************************************)
\* lines 341-374: the metadata file, the burn-in, and the temporary files
CutBurn ==
    /\ pc = "cut.burn"
    /\ \E burned \in BOOLEAN :
        LET run == IF burned THEN [cur EXCEPT !.final = "burned"] ELSE renameTemp(cur)
        IN  \* os.Remove(tempOutputFileName), os.Remove(cutSubtitleFileName)
            cur' = [run EXCEPT !.metadataFile = (metaResult # "nil"), !.temp = FALSE]
    /\ pc' = "cut.cover"
    /\ UNCHANGED <<textVars, runVars, envVars, splitVars, segVars, getCutsVars, videoDuration, cutIndex, metaVars>>

\* one variant: run for it when its base is configured, and it may fail
renderVariant(products, configured, name, ok) ==
    IF configured
    THEN [products EXCEPT !.attempted = @ \cup {name},
                          !.rendered = IF ok THEN @ \cup {name} ELSE @]
    ELSE products

\* lines 376-436
CutCover ==
    /\ pc = "cut.cover"
    /\ \E ok \in BOOLEAN : cur' = renderVariant(cur, channel.cover, "cover", ok)
    /\ pc' = "cut.vertical"
    /\ UNCHANGED <<textVars, runVars, envVars, splitVars, segVars, getCutsVars, videoDuration, cutIndex, metaVars>>

\* lines 438-468
CutVertical ==
    /\ pc = "cut.vertical"
    /\ \E ok \in BOOLEAN : cur' = renderVariant(cur, channel.vertical, "vertical", ok)
    /\ pc' = "cut.horizontal"
    /\ UNCHANGED <<textVars, runVars, envVars, splitVars, segVars, getCutsVars, videoDuration, cutIndex, metaVars>>

\* lines 470-500
CutHorizontal ==
    /\ pc = "cut.horizontal"
    /\ \E ok \in BOOLEAN : cur' = renderVariant(cur, channel.horizontal, "horizontal", ok)
    /\ pc' = "cut.upload"
    /\ UNCHANGED <<textVars, runVars, envVars, splitVars, segVars, getCutsVars, videoDuration, cutIndex, metaVars>>

\* line 503
uploadsCut(ch, meta) == ch.upload /\ meta # "nil"

\* lines 502-539: UploadToYouTube of horizontal-yt/<title>.mp4, then of
\* vertical/<title>.mp4 if that file exists; an upload of a file that does
\* not exist fails
CutUpload ==
    /\ pc = "cut.upload"
    /\ \/ /\ ~uploadsCut(channel, metaResult)
          /\ cur' = [cur EXCEPT !.outcome = "done"]
       \/ /\ uploadsCut(channel, metaResult)
          /\ \E okH, okV \in BOOLEAN :
              /\ okH => "horizontal" \in cur.rendered
              /\ cur' = [cur EXCEPT
                    !.uploads = <<[file |-> "horizontal-yt", ok |-> okH]>>
                                \o (IF "vertical" \in cur.rendered
                                    THEN <<[file |-> "vertical", ok |-> okV]>>
                                    ELSE <<>>),
                    !.outcome = "done"]
    /\ pc' = "cut.end"
    /\ UNCHANGED <<textVars, runVars, envVars, splitVars, segVars, getCutsVars, videoDuration, cutIndex, metaVars>>

\* a slip: a cut that could not be materialized ends the loop over the cuts
afterCutStopsAtFailure(index, count, outcome) ==
    IF outcome \in {"rejected", "clip failed"} THEN count + 1 ELSE index + 1

\* "for j, cut := range cuts": the position taken after the cut at index,
\* however its iteration ended (line 540, and each continue)
afterCut(index, count, outcome) == index + 1

\* the end of an iteration of the loop over the cuts (line 540, and each continue)
CutEnd ==
    /\ pc = "cut.end"
    /\ cutIndex' = afterCut(cutIndex, Len(cuts), cur.outcome)
    /\ finals' = IF cur.final # "none"
                 THEN finals \cup {outputFileName(cuts[cutIndex])}
                 ELSE finals
    /\ cur' = NoProducts
    /\ MetadataStart
    /\ pc' = "cut"
    /\ UNCHANGED <<textVars, envVars, splitVars, segVars, getCutsVars, videoDuration,
                   force, earlier, outputDir, result, asked, visited>>

(***************************************************************************)
(* GetLastVideos, and DownloadVideo up to splitLongVideo (lines 75-275).   *)
(***************************************************************************)
\* lines 84-109: how reading the channel's feed ends; every failure, and a
\* feed without entries, ends in log.Fatalf
FeedOutcomes == {"request error", "read error", "parse error", "no entries", "entries"}

feedIsFatal(outcome) == outcome # "entries"

\* lines 75-128, called at line 194: "v=<id>" gives that one video without
\* a request; otherwise the feed is read
GetLastVideos ==
    /\ pc = "feed"
    /\ \/ \* strings.HasPrefix(channel.ChannelID, "v=")
          pc' = "videos"
       \/ \E outcome \in FeedOutcomes :
            pc' = IF feedIsFatal(outcome) THEN "exited" ELSE "videos"
    /\ UNCHANGED <<textVars, runVars, envVars, splitVars, segVars, getCutsVars, cutVars, metaVars>>

\* what an earlier run can have left as the output directory of a video
OldDirectories ==
    {[exists |-> TRUE, old |-> TRUE, made |-> FALSE, video |-> v, srt |-> t] :
        v \in {"none", "old"}, t \in {"none", "old"}}

\* the locals of an iteration of the loop over the video IDs
ResetVideo ==
    /\ duration' = 0
    /\ vttReadable' = FALSE
    /\ splitI' = 0
    /\ videoSegments' = <<>>
    /\ subtitleSegments' = <<>>
    /\ ffmpegCuts' = <<>>
    /\ segmentFiles' = <<>>
    /\ seg' = 1
    /\ cuts' = <<>>
    /\ GetCutsIdle
    /\ videoDuration' = 0
    /\ cutIndex' = 0
    /\ cur' = NoProducts
    /\ MetadataStart
    /\ result' = "none"
    /\ asked' = FALSE
    /\ finals' = {}
    /\ visited' = <<>>
    /\ disk' = {}

\* line 196: the next video ID, if there is one, and its output directory
\* (line 199); after the last one, line 557
NextVideo ==
    /\ \/ /\ pc \in {"videos", "video.end"}
          /\ outputDir' \in {NoDirectory} \cup OldDirectories
          /\ earlier' = "none"
          /\ ResetVideo
          /\ pc' = "policy"
       \/ /\ pc = "video.end"
          /\ pc' = "done"
          /\ UNCHANGED <<duration, vttReadable, splitVars, segVars, getCutsVars, cutVars, metaVars,
                         earlier, outputDir, result, asked, finals, visited>>
    /\ UNCHANGED <<textVars, channel, force>>

\* the output directory of a video as the next run of the program finds it
leftBy(dir) ==
    IF ~dir.exists THEN NoDirectory
    ELSE [exists |-> TRUE, old |-> TRUE, made |-> FALSE,
          video |-> IF dir.video = "none" THEN "none" ELSE "old", srt |-> dir.srt]

\* DownloadVideo has returned; a later run without force, whose list of
\* video IDs still holds the last video of this run, comes to it (lines 196-199)
NextRun ==
    /\ pc = "done"
    /\ ~force
    /\ outputDir' = leftBy(outputDir)
    /\ earlier' = result
    /\ ResetVideo
    /\ pc' = "policy"
    /\ UNCHANGED <<textVars, channel, force>>

\* a slip: the directory of a video that is reprocessed is left as it is
removesDirectoryNever(forced, exists) == FALSE

\* lines 201-205: the video is skipped
skipsVideo(forced, exists) == ~forced /\ exists

\* lines 206-208: the directory is removed
removesDirectory(forced, exists) == forced /\ exists

\* lines 199-214
SkipOrRemove ==
    /\ pc = "policy"
    /\ \/ /\ skipsVideo(force, outputDir.exists)
          /\ result' = "skipped"
          /\ pc' = "video.end"
          /\ UNCHANGED outputDir
          /\ UNCHANGED earlier
       \/ /\ removesDirectory(force, outputDir.exists)
          /\ \/ \* os.RemoveAll fails: part of the directory may be gone
                /\ \E v \in {"none", outputDir.video}, t \in {"none", outputDir.srt} :
                     outputDir' = [outputDir EXCEPT !.video = v, !.srt = t]
                /\ result' = "remove failed"
                /\ pc' = "video.end"
             \/ /\ outputDir' = NoDirectory
                /\ pc' = "mkdir"
                /\ UNCHANGED result
          /\ UNCHANGED earlier
       \/ /\ ~skipsVideo(force, outputDir.exists)
          /\ ~removesDirectory(force, outputDir.exists)
          /\ pc' = "mkdir"
          /\ earlier' = "none"
          /\ UNCHANGED <<outputDir, result>>
    /\ UNCHANGED <<textVars, envVars, splitVars, segVars, getCutsVars, cutVars, metaVars,
                   force, asked, finals, visited>>

\* lines 221-224: os.MkdirAll(outputDir + "/horizontal")
MakeDirectories ==
    /\ pc = "mkdir"
    /\ \/ /\ result' = "mkdir failed"
          /\ pc' = "video.end"
          /\ UNCHANGED outputDir
       \/ /\ outputDir' = [outputDir EXCEPT !.exists = TRUE, !.made = TRUE]
          /\ pc' = "download"
          /\ UNCHANGED result
    /\ UNCHANGED <<textVars, envVars, splitVars, segVars, getCutsVars, cutVars, metaVars,
                   force, earlier, asked, finals, visited>>

\* lines 226-249: yt-dlp writes "<id>.mp4" unless the file is there
DownloadMedia ==
    /\ pc = "download"
    /\ \/ /\ outputDir.video = "none"
          /\ \/ /\ result' = "download failed"
                /\ pc' = "video.end"
                /\ UNCHANGED <<outputDir, duration>>
             \/ /\ outputDir' = [outputDir EXCEPT !.video = "new"]
                /\ duration' \in Durations
                /\ pc' = "subtitles"
                /\ UNCHANGED result
       \/ /\ outputDir.video # "none"
          /\ duration' \in Durations
          /\ pc' = "subtitles"
          /\ UNCHANGED <<outputDir, result>>
    /\ UNCHANGED <<textVars, channel, vttReadable, splitVars, segVars, getCutsVars, cutVars, metaVars,
                   force, earlier, asked, finals, visited>>

\* lines 251-268: yt-dlp writes the caption track "<id>.srt.pt.vtt", if the
\* video has one, unless a file "<id>.srt" is there
DownloadSubtitles ==
    /\ pc = "subtitles"
    /\ \/ /\ outputDir.srt = "none"
          /\ \/ /\ result' = "subtitles failed"
                /\ pc' = "video.end"
                /\ UNCHANGED vttReadable
             \/ /\ vttReadable' \in BOOLEAN
                /\ pc' = "split"
                /\ UNCHANGED result
       \/ /\ outputDir.srt # "none"
          /\ vttReadable' \in BOOLEAN
          /\ pc' = "split"
          /\ UNCHANGED result
    /\ UNCHANGED <<textVars, channel, duration, splitVars, segVars, getCutsVars, cutVars, metaVars,
                   force, earlier, outputDir, asked, finals, visited>>

\* a slip: the error of splitLongVideo is not looked at
afterSplitErrorGoesOn == "segments"

\* lines 272-275: "continue", the iteration of the video ends
afterSplitError == "video.end"

\* lines 271-275: splitLongVideo returned an error, from the probe (no
\* ffmpeg run yet) or from an ffmpeg run
SplitError ==
    /\ pc = "failed"
    /\ result' = IF ffmpegCuts = <<>> THEN "probe failed" ELSE "split failed"
    /\ pc' = afterSplitError
    /\ UNCHANGED <<textVars, envVars, splitVars, segVars, getCutsVars, cutVars, metaVars,
                   force, earlier, outputDir, asked, finals, visited>>

(***************************************************************************)
(* DownloadVideo(channel, force) for one channel.                          *)
(***************************************************************************)
Init ==
    /\ TextIdle
    /\ pc = "feed"
    /\ channel \in Channels
    /\ force \in BOOLEAN
    /\ duration = 0
    /\ vttReadable = FALSE
    /\ splitI = 0
    /\ videoSegments = <<>>
    /\ subtitleSegments = <<>>
    /\ ffmpegCuts = <<>>
    /\ segmentFiles = <<>>
    /\ seg = 1
    /\ cuts = <<>>
    /\ attempt = 0
    /\ statusCode = 0
    /\ apiResponse = <<>>
    /\ waits = <<>>
    /\ outcomes = <<>>
    /\ lastResponse = NoResponse
    /\ subtleContent = <<>>
    /\ videoDuration = 0
    /\ cutIndex = 0
    /\ cur = NoProducts
    /\ mAttempt = 0
    /\ mStatusCode = 0
    /\ metadata = "zero"
    /\ mOutcomes = <<>>
    /\ metaResult = "nil"
    /\ outputDir = NoDirectory
    /\ result = "none"
    /\ asked = FALSE
    /\ finals = {}
    /\ visited = <<>>
    /\ payload = RequestBytes
    /\ mPayload = RequestBytes
    /\ disk = {}
    /\ earlier = "none"

Next ==
    \/ GetLastVideos
    \/ NextVideo
    \/ NextRun
    \/ SkipOrRemove
    \/ MakeDirectories
    \/ DownloadMedia
    \/ DownloadSubtitles
    \/ ProbeDuration
    \/ SplitSegment
    \/ SplitReturn
    \/ SplitError
    \/ NextSegment
    \/ GetCutsStart
    \/ GetCutsAttempt
    \/ GetCutsReturn
    \/ AfterGetCuts
    \/ CutCheck
    \/ CutClip
    \/ CutCaptions
    \/ MetadataAttempt
    \/ MetadataReturn
    \/ CutBurn
    \/ CutCover
    \/ CutVertical
    \/ CutHorizontal
    \/ CutUpload
    \/ CutEnd
    \/ Cleanup

Spec == Init /\ [][Next]_vars

(***************************************************************************)
(* DownloadVideo and its functions: what the claims compare with.          *)
(***************************************************************************)
\* the least n with n * bound >= d: ceil(d / bound)
SegmentsNeeded(d, bound) ==
    CHOOSE n \in 1..(d \div bound + 1) : n * bound >= d /\ (n - 1) * bound < d

\* the places of the loop over the cuts
CutPlaces ==
    {"cut", "cut.clip", "cut.captions", "metadata.loop", "metadata.after", "cut.burn",
     "cut.cover", "cut.vertical", "cut.horizontal", "cut.upload", "cut.end"}

\* splitLongVideo has returned its segments for the video being processed
SplitReturned ==
    \/ pc \in {"segments", "getcuts", "getcuts.loop", "getcuts.after", "gotcuts", "cleanup", "panic"}
    \/ pc \in CutPlaces
    \/ pc \in {"video.end", "done"} /\ result = "completed"

AllFailed(os) == \A n \in DOMAIN os : os[n] = "failed"

\* the variants configured for the channel
Configured ==
    {v \in {"cover", "vertical", "horizontal"} :
        \/ v = "cover" /\ channel.cover
        \/ v = "vertical" /\ channel.vertical
        \/ v = "horizontal" /\ channel.horizontal}

(***************************************************************************)
(* C1.  splitLongVideo with bound B = 1200 s: a video of length D <= B is  *)
(* returned as the one original file and ffmpeg is not run; a longer one   *)
(* is returned as ceil(D / B) segment files, segment i (from 0) cut with   *)
(* start i * B and length B.                                               *)
(***************************************************************************)
C1_SegmentPlan ==
    /\ \A k \in DOMAIN ffmpegCuts :
        ffmpegCuts[k] = [start |-> (k - 1) * 1200, length |-> 1200]
    /\ SplitReturned =>
        IF duration <= 1200000
        THEN videoSegments = <<videoFileName>> /\ ffmpegCuts = <<>>
        ELSE /\ Len(videoSegments) = SegmentsNeeded(duration, 1200000)
             /\ Len(ffmpegCuts) = Len(videoSegments)
             /\ \A k \in DOMAIN videoSegments : videoSegments[k] = VideoFile(k)

\* a 2500 s video has been split into 3 segments starting at 0, 1200, 2400
C1_Witness ==
    /\ pc = "segments"
    /\ duration = 2500000
    /\ Len(videoSegments) = 3
    /\ [k \in 1..3 |-> ffmpegCuts[k].start] = <<0, 1200, 2400>>

(***************************************************************************)
(* C2.  The caption slice written for a cut comes from the same interval   *)
(* of the source as its media slice: for a cut {begin, end} of the         *)
(* segment that starts at offset s, from the entries of the caption track  *)
(* that intersect [s + begin, s + end], re-timed to start at zero.         *)
(***************************************************************************)
C2_CaptionsAlignedWithMedia ==
    (pc \in CutPlaces /\ cur.caption # <<>>) =>
        LET clip == cur.sliced[1]
            s == SegmentStart(clip.file)
        IN  cur.caption[1]
              = getSubtitlesForTimeRange(parseVTTFile(VideoDoc), s + clip.begin, s + clip.end)

(***************************************************************************)
(* C6.  GetCuts retry schedule: the wait before attempt i (from 0) is 0    *)
(* for i = 0 and 2^i seconds after that; no attempt follows an answer      *)
(* that holds cuts; failed attempts are retried up to the third; and when  *)
(* k failed attempts are followed by an answer with cuts, the cuts of      *)
(* that answer are returned.                                               *)
(***************************************************************************)
C6_RetrySchedule ==
    /\ Len(waits) = Len(outcomes)
    /\ \A n \in DOMAIN waits : waits[n] = IF n = 1 THEN 0 ELSE 2 ^ (n - 1)
    /\ \A n \in 1..(Len(outcomes) - 1) : outcomes[n] # "cuts"
    /\ (pc = "gotcuts" /\ outcomes # <<>>) =>
        /\ AllFailed(outcomes) => Len(outcomes) = 3
        /\ (/\ outcomes[Len(outcomes)] = "cuts"
            /\ AllFailed(SubSeq(outcomes, 1, Len(outcomes) - 1))) =>
                cuts = lastResponse.body.choices[1].cuts

\* the service failed twice and then answered: 3 attempts, waits 0, 2, 4
C6_Witness ==
    /\ pc = "gotcuts"
    /\ outcomes = <<"failed", "failed", "cuts">>
    /\ waits = <<0, 2, 4>>
    /\ cuts = <<Cut("X", 0, 9999), Cut("A", 10, 20)>>

(***************************************************************************)
(* C7.  GetCuts makes at most 3 attempts, and when all 3 fail it returns   *)
(* an empty result.                                                        *)
(***************************************************************************)
C7_EmptyAfterExhaustion ==
    /\ Len(outcomes) <= 3
    /\ (pc = "gotcuts" /\ Len(outcomes) = 3 /\ AllFailed(outcomes)) => cuts = <<>>

(***************************************************************************)
(* C8.  When all 3 attempts of GenerateMetadata fail, it returns no        *)
(* metadata, the configured variants of the cut are still rendered, and    *)
(* no upload is attempted for the cut.                                     *)
(***************************************************************************)
C8_NoMetadataNoUpload ==
    (pc \in CutPlaces /\ Len(mOutcomes) = 3 /\ AllFailed(mOutcomes)) =>
        /\ pc # "metadata.loop" => metaResult = "nil"
        /\ cur.uploads = <<>>
        /\ (pc = "cut.end") => cur.attempted = Configured

(***************************************************************************)
(* C9.  A cut whose begin or end exceeds the length of its segment is      *)
(* skipped: no media slice, caption file, metadata, variant or upload is   *)
(* made for it.                                                            *)
(***************************************************************************)
C9_ExceedingCutSkipped ==
    (/\ pc \in CutPlaces
     /\ cutIndex <= Len(cuts)
     /\ \/ 1000 * cuts[cutIndex].Begin > videoDuration
        \/ 1000 * cuts[cutIndex].End > videoDuration) =>
        /\ pc \in {"cut", "cut.end"}
        /\ pc = "cut.end" => cur.outcome = "rejected"
        /\ [cur EXCEPT !.outcome = "none"] = NoProducts

\* {title "X", begin 0, end 9999} on a 600 s segment has been rejected
C9_Witness ==
    /\ pc = "cut.end"
    /\ videoDuration = 600000
    /\ cuts[cutIndex] = Cut("X", 0, 9999)
    /\ cur.outcome = "rejected"
    /\ cur.sliced = <<>>

(***************************************************************************)
(* C10.  Every cut window handed to the media slicer satisfies             *)
(* 0 <= begin < end <= segment length.                                     *)
(***************************************************************************)
C10_SlicedWindowsValid ==
    pc \in CutPlaces =>
        \A n \in DOMAIN cur.sliced :
            /\ 0 <= cur.sliced[n].begin
            /\ cur.sliced[n].begin < cur.sliced[n].end
            /\ 1000 * cur.sliced[n].end <= videoDuration

(***************************************************************************)
(* What the claims on DownloadVideo's loops compare with.                  *)
(***************************************************************************)
\* the positions 1..n in order
Positions(n) == [k \in 1..n |-> k]

\* the places after the burn-in of a cut, and the end of its iteration
AfterBurn == {"cut.cover", "cut.vertical", "cut.horizontal", "cut.upload", "cut.end"}

\* the places of a video from the call of splitLongVideo on
FromSplit ==
    {"split", "split.loop", "failed", "segments", "getcuts", "getcuts.loop", "getcuts.after",
     "gotcuts", "cleanup", "panic"} \cup CutPlaces

\* the service gave metadata for the cut in some attempt
MetadataObtained == \E n \in DOMAIN mOutcomes : mOutcomes[n] = "metadata"

(***************************************************************************)
(* C11.  A segment whose caption file could not be produced is still       *)
(* returned by splitLongVideo and still processed by DownloadVideo: the    *)
(* loop over the segments has a caption file name for every returned       *)
(* segment it reaches, it never stops with a run-time panic, and the       *)
(* clean-up is reached only after the last returned segment.               *)
(***************************************************************************)
C11_EverySegmentProcessed ==
    /\ pc # "panic"
    /\ (pc = "segments" /\ seg <= Len(videoSegments)) => seg <= Len(subtitleSegments)
    /\ pc = "cleanup" => seg = Len(videoSegments) + 1

(***************************************************************************)
(* C12.  No failure while a channel is processed ends the process: it is   *)
(* never terminated by log.Fatalf and never stopped by a panic.            *)
(***************************************************************************)
C12_ProcessKeepsRunning == pc \notin {"exited", "panic"}

(***************************************************************************)
(* C13.  Skip/force policy: without force, a video whose output directory  *)
(* exists is skipped and its directory is left as it is; nothing is        *)
(* created under a directory that still holds what an earlier run left     *)
(* (with force it was removed first), and a forced video reaches           *)
(* splitLongVideo only with a video file downloaded by this run.           *)
(***************************************************************************)
C13_SkipForcePolicy ==
    /\ [][(pc = "policy" /\ ~force /\ outputDir.exists) =>
            (pc' = "video.end" /\ result' = "skipped" /\ outputDir' = outputDir)]_vars
    /\ [](outputDir.made => ~outputDir.old)
    /\ []((force /\ pc \in FromSplit) => (outputDir.made /\ outputDir.video = "new"))

\* without force, a video whose directory holds an earlier run's files was skipped
C13_Witness ==
    /\ ~force
    /\ pc = "video.end"
    /\ result = "skipped"
    /\ outputDir \in OldDirectories
    /\ outputDir.video = "old"

(***************************************************************************)
(* C14.  The caption text GetCuts sends for segment i of a split video     *)
(* holds only the entries that intersect the segment's window              *)
(* [i * 1200, (i + 1) * 1200].                                             *)
(***************************************************************************)
C14_SegmentDocumentSent ==
    (pc \in {"getcuts.loop", "getcuts.after"} /\ Len(videoSegments) > 1) =>
        LET a == SegmentStart(videoSegments[seg])
            sent == parseVTTFile(subtleContent)
        IN  \A k \in DOMAIN sent :
                /\ sent[k].StartTime <= 1000 * (a + segmentDuration)
                /\ sent[k].EndTime >= 1000 * a

(***************************************************************************)
(* C15.  Two different cuts never write to the same path: the final clip   *)
(* of a cut is not written to the path of the final clip of an earlier     *)
(* cut of the segment.                                                     *)
(***************************************************************************)
C15_ArtifactPathsUnique ==
    (pc \in CutPlaces /\ cutIndex <= Len(cuts) /\ cur.final # "none") =>
        outputFileName(cuts[cutIndex]) \notin finals

(***************************************************************************)
(* C16.  An upload of a cut is attempted only when upload is enabled for   *)
(* the channel and the service gave metadata for the cut; a cut with a     *)
(* final clip and without metadata has every configured variant attempted  *)
(* and no upload.                                                          *)
(***************************************************************************)
C16_UploadNeedsMetadata ==
    pc \in CutPlaces =>
        /\ cur.uploads # <<>> => (channel.upload /\ MetadataObtained)
        /\ (pc = "cut.end" /\ cur.final # "none" /\ ~MetadataObtained) =>
            (cur.attempted = Configured /\ cur.uploads = <<>>)

(***************************************************************************)
(* C17.  Fallback to the un-captioned slice: once the slice of a cut was   *)
(* extracted, the iteration leaves no file under the temporary name and    *)
(* leaves a final clip, which is the un-captioned slice when no caption    *)
(* file was written or the burn-in failed.                                 *)
(***************************************************************************)
C17_FallbackToPlainSlice ==
    (pc \in AfterBurn /\ cur.sliced # <<>> /\ cur.outcome # "clip failed") =>
        /\ ~cur.temp
        /\ cur.final \in {"plain", "burned"}
        /\ cur.caption = <<>> => cur.final = "plain"

\* a cut whose caption file could not be produced ended with the plain slice
C17_Witness ==
    /\ pc = "cut.end"
    /\ cur.outcome = "no captions"
    /\ cur.sliced # <<>>
    /\ cur.final = "plain"
    /\ ~cur.temp

(***************************************************************************)
(* C18.  For every cut that has a final clip, the fallback to the          *)
(* un-captioned slice included, the variants attempted are exactly the     *)
(* configured ones.                                                        *)
(***************************************************************************)
C18_VariantsIffConfigured ==
    (pc = "cut.end" /\ cur.final # "none") => cur.attempted = Configured

(***************************************************************************)
(* C19.  Every cut of a segment is taken exactly once, in list order,      *)
(* whatever happened to the cuts before it.                                *)
(***************************************************************************)
C19_CutsInOrder ==
    /\ pc \in CutPlaces =>
        /\ visited = Positions(Len(visited))
        /\ Len(visited) = IF pc = "cut" THEN cutIndex - 1 ELSE cutIndex
        /\ Len(visited) <= Len(cuts)
    /\ (pc = "segments" /\ visited # <<>>) => visited = Positions(Len(cuts))

\* the second cut was taken after the first one was rejected
C19_Witness ==
    /\ pc = "cut.clip"
    /\ cuts = <<Cut("X", 0, 9999), Cut("A", 10, 20)>>
    /\ cutIndex = 2
    /\ visited = <<1, 2>>

(***************************************************************************)
(* C20.  Probe failure: the video ends there, as failed, with no segment,  *)
(* no ffmpeg run, no segment file and no cut proposal requested.           *)
(***************************************************************************)
C20_ProbeFailure ==
    /\ (pc = "failed" /\ ffmpegCuts = <<>>) =>
        (videoSegments = <<>> /\ subtitleSegments = <<>> /\ segmentFiles = <<>> /\ ~asked)
    /\ result = "probe failed" =>
        /\ pc \in {"video.end", "done"}
        /\ videoSegments = <<>>
        /\ subtitleSegments = <<>>
        /\ ffmpegCuts = <<>>
        /\ segmentFiles = <<>>
        /\ ~asked

\* the probe of a downloaded video failed and the video ended
C20_Witness ==
    /\ pc = "video.end"
    /\ result = "probe failed"
    /\ outputDir.video = "new"

\* how the processing of a video may end
Skipped == {"skipped"}

Failed ==
    {"remove failed", "mkdir failed", "download failed", "subtitles failed", "probe failed",
     "split failed"}

Completed == {"completed"}

\* the processing of the video has stopped
VideoStopped == pc \in {"video.end", "done", "panic"}

\* the order of the stages of a video, without their ends
StagesInOrder ==
    /\ pc \in FromSplit => outputDir.video = "new"
    /\ asked => SplitReturned
    /\ pc \in CutPlaces => asked
    /\ cur # NoProducts => pc \in CutPlaces
    /\ cur.attempted # {} => cur.final # "none"
    /\ \A n \in DOMAIN cur.uploads :
         (cur.uploads[n].ok /\ cur.uploads[n].file = "horizontal-yt") =>
            "horizontal" \in cur.rendered
    /\ \A n \in DOMAIN cur.uploads :
         cur.uploads[n].file = "vertical" => "vertical" \in cur.rendered

(***************************************************************************)
(* C21.  The stages of a video happen in the order download, split, cut    *)
(* proposal per segment, then per cut slice, rendering, upload: nothing is *)
(* proposed before the split returned, nothing sliced before the proposal, *)
(* nothing uploaded that was not rendered; and a video whose processing    *)
(* has stopped was skipped, has failed, or was completed.                  *)
(***************************************************************************)
C21_StageOrder ==
    /\ StagesInOrder
    /\ VideoStopped => result \in Skipped \cup Failed \cup Completed

\* the same, for the videos whose processing the index out of range of
\* line 280 does not stop
C21_StageOrderUnlessPanic ==
    /\ StagesInOrder
    /\ (VideoStopped /\ pc # "panic") => result \in Skipped \cup Failed \cup Completed

(***************************************************************************)
(* C22.  When a video that was split into more than one segment has been   *)
(* processed, every segment media file and every segment caption file      *)
(* that splitLongVideo created has been deleted and the downloaded video   *)
(* file is still there; a video that is its own single segment is never    *)
(* deleted.                                                                *)
(***************************************************************************)
C22_SegmentLifecycle ==
    /\ (pc \in {"video.end", "done"} /\ result = "completed" /\ Len(videoSegments) > 1) =>
        /\ disk = {}
        /\ outputDir.video = "new"
    /\ (SplitReturned /\ Len(videoSegments) = 1) =>
        /\ videoSegments = <<videoFileName>>
        /\ outputDir.video = "new"

\* a video of three segments, each with its caption file, was completed
C22_Witness ==
    /\ pc = "video.end"
    /\ result = "completed"
    /\ Len(videoSegments) = 3
    /\ Len(subtitleSegments) = 3
    /\ disk = {}

(***************************************************************************)
(* C23.  parseVTTFile yields one entry per time line, in the order of the  *)
(* file, and the text of an entry is the space-joined sequence of the      *)
(* caption text lines between its time line and the next one: no line of   *)
(* caption text is dropped or added.                                       *)
(***************************************************************************)
C23_EntryPerTimeLine == Parsed => EntriesFollowFile(doc, subtitleEntries)

\* the same, for the files in which no line of caption text begins with NOTE
C23_UnlessNotePrefix ==
    (Parsed /\ \A i \in DOMAIN doc : doc[i].kind = "text" => ~skipsLine(doc[i])) =>
        EntriesFollowFile(doc, subtitleEntries)

(***************************************************************************)
(* C24.  For every file, one with malformed timestamps included, every     *)
(* entry of parseVTTFile has Index equal to its 1-based position and       *)
(* EndTime >= StartTime, and the entries are in ascending StartTime order. *)
(***************************************************************************)
C24_EntriesWellFormed ==
    Parsed =>
        /\ \A k \in DOMAIN subtitleEntries :
            /\ subtitleEntries[k].Index = k
            /\ subtitleEntries[k].EndTime >= subtitleEntries[k].StartTime
        /\ \A j, k \in DOMAIN subtitleEntries :
            j < k => subtitleEntries[j].StartTime <= subtitleEntries[k].StartTime

\* the part of it that holds: the Index of an entry is its position
C24_IndexIsPosition ==
    Parsed => \A k \in DOMAIN subtitleEntries : subtitleEntries[k].Index = k

(***************************************************************************)
(* C25.  In GetCuts and in GenerateMetadata every attempt, the first and   *)
(* each retry, has the whole request body to send: an earlier attempt      *)
(* leaves the body neither empty nor shortened.                            *)
(***************************************************************************)
C25_WholeBodyEachAttempt ==
    /\ (pc = "getcuts.loop" /\ attempt < maxRetries) => payload = RequestBytes
    /\ (pc = "metadata.loop" /\ mAttempt < maxRetries) => mPayload = RequestBytes

\* the part of it that holds: the first attempt has the whole body
C25_FirstAttemptWhole ==
    /\ (pc = "getcuts.loop" /\ attempt = 0) => payload = RequestBytes
    /\ (pc = "metadata.loop" /\ mAttempt = 0) => mPayload = RequestBytes

(***************************************************************************)
(* C26.  Across runs without force: a video is skipped because its output  *)
(* directory exists only when an earlier run completed it (or skipped it   *)
(* in its turn); a video whose download, subtitle download, probe or split *)
(* failed in the run before is attempted again.                            *)
(***************************************************************************)
C26_SkippedOnlyIfCompleted ==
    (~force /\ pc = "video.end" /\ result = "skipped" /\ earlier # "none") =>
        earlier \in Completed \cup Skipped

====
